---- MODULE Spec2Model ----
(***************************************************************************)
(* Country currency service (main.go): the refresh pipeline, the by-name   *)
(* handlers and the read-only handlers, over a MySQL table `countries`     *)
(* reached through GORM.                                                   *)
(*                                                                         *)
(* Go pointer fields (to string, to float64) are sequences of length       *)
(* at most one: <<>> is nil, <<v>> points to v.                            *)
(* Strings that are compared case-insensitively are sequences of letters.  *)
(* float64 is modelled as a binary floating-point format with MantBits     *)
(* significant bits and round-to-nearest, ties-to-even.                    *)
(***************************************************************************)
EXTENDS Integers, Sequences, FiniteSets, TLC

\* ------------------------------------------------------------------ bounds
NumProcs == 2            \* concurrent refresh requests
MaxRefreshes == 2        \* refresh requests accepted in one behaviour
MaxDeletes == 1          \* delete requests accepted in one behaviour
MantBits == 8            \* significand width of the modelled float64
TicksPerMilli == 2       \* clock ticks in one millisecond

Procs == 1..NumProcs

\* -------------------------------------------------------------- pointers
Nil == <<>>
Ptr(v) == <<v>>
IsNil(p) == p = <<>>
Deref(p) == p[1]

\* ----------------------------------------------------------------- names
\* SQL LOWER() on one letter
LowerChar(c) ==
    CASE c = "N" -> "n"
      [] c = "G" -> "g"
      [] c = "T" -> "t"
      [] OTHER -> c

\* SQL LOWER(name)
LOWER(s) == [i \in DOMAIN s |-> LowerChar(s[i])]

\* variant: the comparison without LOWER(), under a case-sensitive collation
NameMatchesExact(rowName, name) == rowName = name

\* the predicate of `Where("LOWER(name) = LOWER(?)", name)`
NameMatches(rowName, name) == LOWER(rowName) = LOWER(name)

\* ------------------------------------------------------------- float64
RECURSIVE Pow2(_)
Pow2(n) == IF n = 0 THEN 1 ELSE 2 * Pow2(n - 1)

\* exponent of the unit in the last place of n/d (n >= 0, d > 0)
RECURSIVE FloatExp(_, _, _)
FloatExp(n, d, e) ==
    IF n < Pow2(MantBits + e) * d THEN e ELSE FloatExp(n, d, e + 1)

\* n/d rounded to MantBits significant bits, ties to even
RoundFloat(n, d) ==
    LET e == FloatExp(n, d, 0)
        u == Pow2(e) * d
        q == n \div u
        r == n % u
    IN  IF 2 * r > u \/ (2 * r = u /\ q % 2 = 1)
        THEN (q + 1) * Pow2(e)
        ELSE q * Pow2(e)

\* rand.Float64() returns k / 2^MantBits for some k in 0 .. 2^MantBits - 1.
\* variant: the range 2000 is used where the width 2000-1000 is meant
RandomMultiplierWide(k) ==
    RoundFloat(RoundFloat(k * 2000, Pow2(MantBits)) + 1000, 1)

\* rand.Float64()*(2000-1000) + 1000, for the draw k / 2^MantBits
RandomMultiplier(k) ==
    RoundFloat(RoundFloat(k * (2000 - 1000), Pow2(MantBits)) + 1000, 1)

\* float64(population) * randomMultiplier / rate
EstimateGDP(population, multiplier, rate) ==
    RoundFloat(RoundFloat(population * multiplier, 1), rate)

\* ------------------------------------------------- external API responses
\* RestCountry.Currencies[i]["code"]: a missing key reads as ""
Codes == {"NGN", "XOF"}

\* RestCountry (name, region, population, currencies)
RestCountry(name, region, population, currencies) ==
    [Name |-> name, Region |-> region, Population |-> population,
     Currencies |-> currencies]

\* ExchangeRateResponse.Rates: rates[c] is Nil when the key c is absent
RateTable(ngn, xof) == [c \in Codes |-> IF c = "NGN" THEN ngn ELSE xof]

\* --------------------------------------------------------- Country rows
\* times are counted in clock ticks; the zero time.Time
ZeroTime == 0

\* a time as the column last_refreshed_at keeps it: the column of a
\* time.Time field is datetime(3), and the server rounds a value with a
\* finer fraction to the nearest millisecond, halves upwards
DbTime(t) == ((2 * t + TicksPerMilli) \div (2 * TicksPerMilli)) * TicksPerMilli

Country(id, name, region, population, code, rate, gdp, at) ==
    [ID |-> id, Name |-> name, Region |-> region, Population |-> population,
     CurrencyCode |-> code, ExchangeRate |-> rate, EstimatedGDP |-> gdp,
     LastRefreshedAt |-> at]

nilIfEmpty(s) == IF s = "" THEN Nil ELSE Ptr(s)

\* the loop body of refreshCountries up to the construction of dbCountry
DbCountry(country, rates, multiplier, now) ==
    LET hasCode == Len(country.Currencies) > 0
                   /\ country.Currencies[1].code # ""
        code == country.Currencies[1].code
        exists == hasCode /\ ~IsNil(rates[code])
        rate == Deref(rates[code])
    IN  Country(0, country.Name, nilIfEmpty(country.Region),
                country.Population,
                IF hasCode THEN Ptr(code) ELSE Nil,
                IF exists THEN Ptr(rate) ELSE Nil,
                IF hasCode
                THEN (IF exists
                      THEN Ptr(EstimateGDP(country.Population, multiplier, rate))
                      ELSE Nil)
                ELSE Ptr(0),
                now)

\* ------------------------------------------------------- the table (GORM)
\* db.Where("LOWER(name) = LOWER(?)", name).First(&row): the matching row
\* of least primary key, Nil on gorm.ErrRecordNotFound
First(rows, name) ==
    LET hits == {r \in rows : NameMatches(r.Name, name)}
    IN  IF hits = {} THEN Nil
        ELSE Ptr(CHOOSE r \in hits : \A o \in hits : r.ID <= o.ID)

\* variant: the unique index under a case-sensitive (binary) collation
UniqueIndexCaseSensitive(rows, id, name) ==
    \E r \in rows : r.ID # id /\ r.Name = name

\* the unique index on name, under the table's case-insensitive collation
UniqueIndexConflict(rows, id, name) ==
    \E r \in rows : r.ID # id /\ NameMatches(r.Name, name)

\* variant: the table is replaced by the inserted record
CreateReplacing(rows, id, c) == {[c EXCEPT !.ID = id]}

\* db.Create(&dbCountry): INSERT; a duplicate key is an error the caller drops
Create(rows, id, c) ==
    IF UniqueIndexConflict(rows, id, c.Name) THEN rows
    ELSE rows \cup {[c EXCEPT !.ID = id,
                              !.LastRefreshedAt = DbTime(c.LastRefreshedAt)]}

\* variant: the update leaves last_refreshed_at out
UpdatedRowKeepsTime(r, c) ==
    [r EXCEPT
        !.Name = IF c.Name # <<>> THEN c.Name ELSE @,
        !.Region = IF ~IsNil(c.Region) THEN c.Region ELSE @,
        !.Population = IF c.Population # 0 THEN c.Population ELSE @,
        !.CurrencyCode = IF ~IsNil(c.CurrencyCode) THEN c.CurrencyCode ELSE @,
        !.ExchangeRate = IF ~IsNil(c.ExchangeRate) THEN c.ExchangeRate ELSE @,
        !.EstimatedGDP = IF ~IsNil(c.EstimatedGDP) THEN c.EstimatedGDP ELSE @]

\* db.Model(&existing).Updates(dbCountry): UPDATE ... WHERE id = existing.ID
\* setting the fields of dbCountry that are not the zero value of their type
UpdatedRow(r, c) ==
    [r EXCEPT
        !.Name = IF c.Name # <<>> THEN c.Name ELSE @,
        !.Region = IF ~IsNil(c.Region) THEN c.Region ELSE @,
        !.Population = IF c.Population # 0 THEN c.Population ELSE @,
        !.CurrencyCode = IF ~IsNil(c.CurrencyCode) THEN c.CurrencyCode ELSE @,
        !.ExchangeRate = IF ~IsNil(c.ExchangeRate) THEN c.ExchangeRate ELSE @,
        !.EstimatedGDP = IF ~IsNil(c.EstimatedGDP) THEN c.EstimatedGDP ELSE @,
        !.LastRefreshedAt = IF c.LastRefreshedAt # ZeroTime
                            THEN DbTime(c.LastRefreshedAt) ELSE @]

Updates(rows, existing, c) ==
    IF UniqueIndexConflict(rows, existing.ID, c.Name) THEN rows
    ELSE {IF r.ID = existing.ID THEN UpdatedRow(r, c) ELSE r : r \in rows}

\* variant: DELETE without the primary-key condition
DeleteAll(rows, country) == {}

\* db.Delete(&country): DELETE ... WHERE id = country.ID
Delete(rows, country) == {r \in rows : r.ID # country.ID}

\* MAX(last_refreshed_at), the zero time over an empty table
MaxLastRefreshedAt(rows) ==
    IF rows = {} THEN ZeroTime
    ELSE CHOOSE t \in {r.LastRefreshedAt : r \in rows} :
            \A r \in rows : r.LastRefreshedAt <= t

\* ------------------------------------------------------------------ state
VARIABLES
    store,             \* the rows of table `countries`
    nextID,            \* the table's AUTO_INCREMENT counter
    clock,             \* the wall clock read by time.Now()
    image,             \* the file cache/summary.png: Nil or Ptr(content)
    resp,              \* the response most recently sent
    refreshes,         \* POST /countries/refresh requests accepted so far
    deletes,           \* DELETE /countries/:name requests accepted so far
    pc,                \* refreshCountries: position of each request
    countries,         \* refreshCountries: the fetched country list
    rates,             \* refreshCountries: the fetched rate table
    idx,               \* refreshCountries: loop index into countries
    now,               \* refreshCountries: the captured time.Now()
    randomMultiplier,  \* refreshCountries: the multiplier of this iteration
    dbCountry,         \* refreshCountries: the record of this iteration
    existing,          \* refreshCountries: Nil or Ptr(row found by First)
    delPc,             \* deleteCountry: position
    delName,           \* deleteCountry: the :name parameter
    delCountry         \* deleteCountry: the row found by First

refreshVars == <<pc, countries, rates, idx, now, randomMultiplier, dbCountry,
                 existing>>
deleteVars == <<delPc, delName, delCountry>>
vars == <<store, nextID, clock, image, resp, refreshes, deletes, refreshVars,
          deleteVars>>

NoTable == [c \in Codes |-> Nil]
NoRecord == Country(0, <<>>, Nil, 0, Nil, Nil, Nil, ZeroTime)

\* a response: handler, the :name parameter of the request (<<>> when the
\* route has none), HTTP status, the Country rows of the body, the body's
\* count (total_processed, total_countries), its last_refreshed_at and the
\* source named by "details"
Response(op, name, status, rows, count, at, details) ==
    [op |-> op, name |-> name, status |-> status, rows |-> rows,
     count |-> count, at |-> at, details |-> details]

Init ==
    /\ store = {}
    /\ nextID = 1
    /\ clock \in TicksPerMilli..(2 * TicksPerMilli - 1)
    /\ image = Nil
    /\ resp = Response("none", <<>>, 0, {}, 0, ZeroTime, "")
    /\ refreshes = 0
    /\ deletes = 0
    /\ pc = [p \in Procs |-> "idle"]
    /\ countries = [p \in Procs |-> <<>>]
    /\ rates = [p \in Procs |-> NoTable]
    /\ idx = [p \in Procs |-> 0]
    /\ now = [p \in Procs |-> ZeroTime]
    /\ randomMultiplier = [p \in Procs |-> 0]
    /\ dbCountry = [p \in Procs |-> NoRecord]
    /\ existing = [p \in Procs |-> Nil]
    /\ delPc = "idle"
    /\ delName = <<>>
    /\ delCountry = Nil

\* no handler is between two of its statements
Quiet == delPc = "idle" /\ \A p \in Procs : pc[p] = "idle"

\* ------------------------------------------------------- refreshCountries
\* the locals of a request that has returned
Return(p) ==
    /\ pc' = [pc EXCEPT ![p] = "idle"]
    /\ countries' = [countries EXCEPT ![p] = <<>>]
    /\ rates' = [rates EXCEPT ![p] = NoTable]
    /\ idx' = [idx EXCEPT ![p] = 0]
    /\ now' = [now EXCEPT ![p] = ZeroTime]
    /\ randomMultiplier' = [randomMultiplier EXCEPT ![p] = 0]
    /\ dbCountry' = [dbCountry EXCEPT ![p] = NoRecord]
    /\ existing' = [existing EXCEPT ![p] = Nil]

\* fetchCountries() fails: 503 naming the countries source
FetchCountriesFail(p) ==
    /\ pc[p] = "idle"
    /\ refreshes < MaxRefreshes
    /\ refreshes' = refreshes + 1
    /\ resp' = Response("refresh", <<>>, 503, {}, 0, ZeroTime, "restcountries")
    /\ UNCHANGED <<store, nextID, clock, image, deletes, refreshVars,
                   deleteVars>>

\* fetchCountries() returns a list
FetchCountries(p, lists) ==
    /\ pc[p] = "idle"
    /\ refreshes < MaxRefreshes
    /\ refreshes' = refreshes + 1
    /\ \E l \in lists : countries' = [countries EXCEPT ![p] = l]
    /\ pc' = [pc EXCEPT ![p] = "rates"]
    /\ UNCHANGED <<store, nextID, clock, image, resp, deletes, rates, idx,
                   now, randomMultiplier, dbCountry, existing, deleteVars>>

\* variant: the first record is saved before the rates error is examined
FetchRatesFailAfterSave(p) ==
    /\ pc[p] = "rates"
    /\ resp' = Response("refresh", <<>>, 503, {}, 0, ZeroTime, "exchange rates")
    /\ Return(p)
    /\ store' = IF Len(countries[p]) = 0 THEN store
                ELSE Create(store, nextID,
                            DbCountry(countries[p][1], NoTable, 0, clock))
    /\ nextID' = nextID + 1
    /\ UNCHANGED <<clock, image, refreshes, deletes, deleteVars>>

\* fetchExchangeRates() fails: 503 naming the rates source
FetchRatesFail(p) ==
    /\ pc[p] = "rates"
    /\ resp' = Response("refresh", <<>>, 503, {}, 0, ZeroTime, "exchange rates")
    /\ Return(p)
    /\ UNCHANGED <<store, nextID, clock, image, refreshes, deletes,
                   deleteVars>>

\* fetchExchangeRates() returns a table; now := time.Now(); the loop begins
FetchRates(p, tables) ==
    /\ pc[p] = "rates"
    /\ \E t \in tables : rates' = [rates EXCEPT ![p] = t]
    /\ now' = [now EXCEPT ![p] = clock]
    /\ clock' = clock + 1
    /\ idx' = [idx EXCEPT ![p] = 1]
    /\ pc' = [pc EXCEPT ![p] = IF Len(countries[p]) = 0 THEN "image"
                                ELSE "lookup"]
    /\ UNCHANGED <<store, nextID, image, resp, refreshes, deletes, countries,
                   randomMultiplier, dbCountry, existing, deleteVars>>

\* one iteration up to the SELECT: draw the multiplier, build dbCountry,
\* look the name up
Lookup(p, draws) ==
    /\ pc[p] = "lookup"
    /\ \E k \in draws :
         LET m == RandomMultiplier(k)
             c == countries[p][idx[p]]
         IN  /\ randomMultiplier' = [randomMultiplier EXCEPT ![p] = m]
             /\ dbCountry' = [dbCountry EXCEPT
                                ![p] = DbCountry(c, rates[p], m, now[p])]
             /\ existing' = [existing EXCEPT ![p] = First(store, c.Name)]
    /\ pc' = [pc EXCEPT ![p] = "write"]
    /\ UNCHANGED <<store, nextID, clock, image, resp, refreshes, deletes,
                   countries, rates, idx, now, deleteVars>>

\* the upsert's write of one iteration: INSERT when the lookup found nothing,
\* UPDATE of the found row otherwise
Upsert(rows, found, id, c) ==
    IF IsNil(found) THEN Create(rows, id, c)
    ELSE Updates(rows, Deref(found), c)

Write(p) ==
    /\ pc[p] = "write"
    /\ store' = Upsert(store, existing[p], nextID, dbCountry[p])
    /\ nextID' = IF \E r \in store' : r.ID = nextID THEN nextID + 1
                 ELSE nextID
    /\ idx' = [idx EXCEPT ![p] = idx[p] + 1]
    /\ pc' = [pc EXCEPT ![p] = IF idx[p] < Len(countries[p]) THEN "lookup"
                                ELSE "image"]
    /\ UNCHANGED <<clock, image, resp, refreshes, deletes, countries, rates,
                   now, randomMultiplier, dbCountry, existing, deleteVars>>

\* generateSummaryImage(): the rendered totals
SummaryImage(rows) ==
    [total |-> Cardinality(rows), last |-> MaxLastRefreshedAt(rows)]

\* the end of the handler: the image is written, or os.Create fails and the
\* failure is only logged; the 200 response
Image(p) ==
    /\ pc[p] = "image"
    /\ \E ok \in BOOLEAN :
         image' = IF ok THEN Ptr(SummaryImage(store)) ELSE image
    /\ resp' = Response("refresh", <<>>, 200, {}, Len(countries[p]), now[p], "")
    /\ Return(p)
    /\ UNCHANGED <<store, nextID, clock, refreshes, deletes, deleteVars>>

\* ---------------------------------------------------------- deleteCountry
\* the SELECT finds nothing: 404
DeleteNotFound(name) ==
    /\ delPc = "idle"
    /\ deletes < MaxDeletes
    /\ IsNil(First(store, name))
    /\ deletes' = deletes + 1
    /\ resp' = Response("delete", name, 404, {}, 0, ZeroTime, "")
    /\ UNCHANGED <<store, nextID, clock, image, refreshes, refreshVars,
                   deleteVars>>

\* the SELECT finds a row
DeleteLookup(name) ==
    /\ delPc = "idle"
    /\ deletes < MaxDeletes
    /\ ~IsNil(First(store, name))
    /\ deletes' = deletes + 1
    /\ delName' = name
    /\ delCountry' = First(store, name)
    /\ delPc' = "delete"
    /\ UNCHANGED <<store, nextID, clock, image, resp, refreshes, refreshVars>>

\* the DELETE and the 200 response
DeleteRow ==
    /\ delPc = "delete"
    /\ store' = Delete(store, Deref(delCountry))
    /\ resp' = Response("delete", delName, 200, {}, 0, ZeroTime, "")
    /\ delPc' = "idle"
    /\ delName' = <<>>
    /\ delCountry' = Nil
    /\ UNCHANGED <<nextID, clock, image, refreshes, deletes, refreshVars>>

\* ------------------------------------------------------ read-only handlers
\* getCountries: the rows passing the region and currency filters (the ORDER
\* BY clause only arranges them)
Filtered(rows, region, currency) ==
    {r \in rows :
        /\ region # "" => r.Region = Ptr(region)
        /\ currency # "" => r.CurrencyCode = Ptr(currency)}

getCountries(region, currency) ==
    /\ resp' = Response("list", <<>>, 200, Filtered(store, region, currency), 0,
                        ZeroTime, "")
    /\ UNCHANGED <<store, nextID, clock, image, refreshes, deletes,
                   refreshVars, deleteVars>>

getCountryByName(name) ==
    /\ LET found == First(store, name)
       IN  resp' = IF IsNil(found)
                   THEN Response("get", name, 404, {}, 0, ZeroTime, "")
                   ELSE Response("get", name, 200, {Deref(found)}, 0, ZeroTime, "")
    /\ UNCHANGED <<store, nextID, clock, image, refreshes, deletes,
                   refreshVars, deleteVars>>

getStatus ==
    /\ resp' = Response("status", <<>>, 200, {}, Cardinality(store),
                        MaxLastRefreshedAt(store), "")
    /\ UNCHANGED <<store, nextID, clock, image, refreshes, deletes,
                   refreshVars, deleteVars>>

getCountriesImage ==
    /\ resp' = Response("image", <<>>, IF IsNil(image) THEN 404 ELSE 200, {},
                        IF IsNil(image) THEN 0 ELSE Deref(image).total,
                        IF IsNil(image) THEN ZeroTime ELSE Deref(image).last,
                        "")
    /\ UNCHANGED <<store, nextID, clock, image, refreshes, deletes,
                   refreshVars, deleteVars>>

\* ----------------------------------------------------------- input domains
NameNg == <<"N", "g">>
NameNG == <<"n", "G">>
NameTg == <<"T", "g">>
Names == {NameNg, NameNG, NameTg}
Regions == {"", "Africa"}
Populations == {0, 3}
CurrencyLists == {<<>>, <<[code |-> ""]>>, <<[code |-> "NGN"]>>,
                  <<[code |-> "XOF"], [code |-> "NGN"]>>}
Tables == {RateTable(Nil, Nil), RateTable(Ptr(2), Nil),
           RateTable(Ptr(3), Ptr(1))}
\* draws of rand.Float64(): the least, the middle one and the greatest
Draws == {0, Pow2(MantBits - 1), Pow2(MantBits) - 1}

Nigeria == RestCountry(NameNg, "Africa", 3, <<[code |-> "NGN"]>>)
NigeriaBare == RestCountry(NameNG, "", 3, <<>>)
Togo == RestCountry(NameTg, "Africa", 0, <<[code |-> "XOF"]>>)

\* concurrent requests: one name in two letter cases, alone, twice in one
\* list and next to another name
ConcLists == {<<Nigeria>>, <<NigeriaBare>>, <<NigeriaBare, Nigeria>>,
              <<Togo, Nigeria>>}
ConcTables == {RateTable(Ptr(2), Nil)}
ConcDraws == {0}

\* one request at a time, names in every combination
SeqLists == {<<>>} \cup {<<a>> : a \in {Nigeria, NigeriaBare, Togo}}
            \cup {<<a, b>> : a, b \in {Nigeria, NigeriaBare, Togo}}
SeqTables == {RateTable(Ptr(2), Nil)}
SeqDraws == {0}

\* one request at a time, one name, every currency case
GdpLists == {<<RestCountry(NameNg, "Africa", n, c)>> :
                n \in Populations, c \in CurrencyLists}
            \cup {<<>>}

\* --------------------------------------------------------- specifications
\* requests are served concurrently: any handler may take its next step
Refresh(p, lists, tables, draws) ==
    \/ FetchCountriesFail(p)
    \/ FetchCountries(p, lists)
    \/ FetchRatesFail(p)
    \/ FetchRates(p, tables)
    \/ Lookup(p, draws)
    \/ Write(p)
    \/ Image(p)

DeleteCountry ==
    \/ \E n \in Names : DeleteNotFound(n)
    \/ \E n \in Names : DeleteLookup(n)
    \/ DeleteRow

Next ==
    \/ \E p \in Procs : Refresh(p, ConcLists, ConcTables, ConcDraws)
    \/ DeleteCountry

Spec == Init /\ [][Next]_vars

\* requests are served one at a time by the first worker
Worker == CHOOSE p \in Procs : \A q \in Procs : p <= q

RefreshSeq(lists, tables, draws) ==
    \/ Quiet /\ FetchCountriesFail(Worker)
    \/ Quiet /\ FetchCountries(Worker, lists)
    \/ FetchRatesFail(Worker)
    \/ FetchRates(Worker, tables)
    \/ Lookup(Worker, draws)
    \/ Write(Worker)
    \/ Image(Worker)

DeleteSeq ==
    \/ \E n \in Names : Quiet /\ DeleteNotFound(n)
    \/ \E n \in Names : Quiet /\ DeleteLookup(n)
    \/ DeleteRow

ReadSeq ==
    \/ \E r \in Regions, c \in Codes \cup {""} : Quiet /\ getCountries(r, c)
    \/ \E n \in Names : Quiet /\ getCountryByName(n)
    \/ Quiet /\ getStatus
    \/ Quiet /\ getCountriesImage

NextSeq ==
    \/ RefreshSeq(SeqLists, SeqTables, SeqDraws)
    \/ DeleteSeq
    \/ ReadSeq

SpecSeq == Init /\ [][NextSeq]_vars

\* refreshes only, one at a time, over every currency case
NextGdp == RefreshSeq(GdpLists, Tables, Draws)

SpecGdp == Init /\ [][NextGdp]_vars

\* =================================================================== claims
\* the record of the iteration that worker p has just written
JustWrote(p) == pc[p] \in {"lookup", "image"} /\ idx[p] > 1
Written(p) == countries[p][idx[p] - 1]
RowsNamed(rows, name) == {r \in rows : LOWER(r.Name) = LOWER(name)}

\* ----------------------------------------------------------------------- C1
\* a refresh request returns at a failed fetch
FetchFailed(p) ==
    \/ pc[p] = "idle" /\ pc' = pc /\ refreshes' # refreshes
    \/ pc[p] = "rates" /\ pc'[p] = "idle"
\* a refresh request takes a step that precedes its loop
BeforeLoop(p) == pc[p] \in {"idle", "rates"} /\ pc'[p] # pc[p]

\* C1: when either fetch of a refresh fails, the request answers 503 and no
\* step of the request, from its arrival to the failure, has changed the
\* table: nothing is inserted, updated or deleted, whatever the table holds.
C1_FailedFetchWritesNothing ==
    [][\A p \in Procs :
         /\ FetchFailed(p) => /\ resp'.op = "refresh"
                              /\ resp'.status = 503
                              /\ store' = store
         /\ BeforeLoop(p) => store' = store]_vars

\* a rates failure answered over a table that holds rows
C1_Witness ==
    /\ resp.op = "refresh"
    /\ resp.status = 503
    /\ resp.details = "exchange rates"
    /\ store # {}

\* ----------------------------------------------------------------------- C2
\* worker p has finished its loop and is about to answer 200
LoopDone(p) == pc[p] = "image"
Upstream(p) == {countries[p][i] : i \in 1..Len(countries[p])}

\* C2: after a successful refresh every row whose upstream record has an
\* empty currency list has estimated GDP 0 and a null currency code and a
\* null exchange rate, whether the row was inserted or already existed.
C2_EmptyCurrenciesNullFields ==
    \A p \in Procs :
        LoopDone(p) =>
            \A c \in Upstream(p) :
                Len(c.Currencies) = 0 =>
                    \A r \in RowsNamed(store, c.Name) :
                        /\ r.EstimatedGDP = Ptr(0)
                        /\ IsNil(r.CurrencyCode)
                        /\ IsNil(r.ExchangeRate)

\* ----------------------------------------------------------------------- C3
\* the record carries a currency code
HasCode(c) == Len(c.Currencies) > 0 /\ c.Currencies[1].code # ""
CodeOf(c) == c.Currencies[1].code

\* C3: after a successful refresh every row whose upstream currency code is
\* absent from the rate table has a null exchange rate and a null estimated
\* GDP, whether the row was inserted or already existed with both set.
C3_MissingRateNullFields ==
    \A p \in Procs :
        LoopDone(p) =>
            \A c \in Upstream(p) :
                (HasCode(c) /\ IsNil(rates[p][CodeOf(c)])) =>
                    \A r \in RowsNamed(store, c.Name) :
                        /\ IsNil(r.ExchangeRate)
                        /\ IsNil(r.EstimatedGDP)

\* ----------------------------------------------------------------------- C4
\* C4: a record built without a currency code has a null exchange rate, and
\* a null estimated GDP unless the upstream currency list was empty, where
\* the estimated GDP is 0; a non-empty list whose first entry has no code
\* gives null, not 0.
C4_NoCodeNullUnlessEmptyList ==
    \A p \in Procs :
        (pc[p] = "write" /\ IsNil(dbCountry[p].CurrencyCode)) =>
            /\ IsNil(dbCountry[p].ExchangeRate)
            /\ dbCountry[p].EstimatedGDP =
                  IF Len(countries[p][idx[p]].Currencies) = 0
                  THEN Ptr(0) ELSE Nil

\* ----------------------------------------------------------------------- C5
\* the record's first currency code has a rate in the table
HasRate(c, table) == HasCode(c) /\ ~IsNil(table[CodeOf(c)])
RateOf(c, table) == Deref(table[CodeOf(c)])

\* C5 as stated: a record whose first currency code has a rate is stored
\* with that code, that rate and an estimated GDP of population * m / rate
\* for a multiplier 1000 <= m < 2000, so that the GDP lies in
\* [population*1000/rate, population*2000/rate).
C5_Original ==
    \A p \in Procs :
        (JustWrote(p) /\ HasRate(Written(p), rates[p])) =>
            LET c == Written(p)
                rate == RateOf(c, rates[p])
            IN  /\ RowsNamed(store, c.Name) # {}
                /\ \A r \in RowsNamed(store, c.Name) :
                     /\ r.CurrencyCode = Ptr(CodeOf(c))
                     /\ r.ExchangeRate = Ptr(rate)
                     /\ ~IsNil(r.EstimatedGDP)
                     /\ randomMultiplier[p] >= 1000
                     /\ randomMultiplier[p] < 2000
                     /\ c.Population * 1000 <= Deref(r.EstimatedGDP) * rate
                     /\ Deref(r.EstimatedGDP) * rate < c.Population * 2000

\* C5 as amended: a record whose first currency code has a (positive) rate is
\* stored with that code, that rate and the float64 value of
\* population * m / rate for the drawn multiplier m, 1000 <= m <= 2000; the
\* GDP lies between the float64 values of population*1000/rate and
\* population*2000/rate, both included, and is 0 when the population is 0.
C5_GdpWithinClosedRange ==
    \A p \in Procs :
        (JustWrote(p) /\ HasRate(Written(p), rates[p])) =>
            LET c == Written(p)
                rate == RateOf(c, rates[p])
            IN  /\ RowsNamed(store, c.Name) # {}
                /\ \A r \in RowsNamed(store, c.Name) :
                     /\ r.CurrencyCode = Ptr(CodeOf(c))
                     /\ r.ExchangeRate = Ptr(rate)
                     /\ ~IsNil(r.EstimatedGDP)
                     /\ randomMultiplier[p] >= 1000
                     /\ randomMultiplier[p] <= 2000
                     /\ Deref(r.EstimatedGDP) =
                          EstimateGDP(c.Population, randomMultiplier[p], rate)
                     /\ EstimateGDP(c.Population, 1000, rate)
                          <= Deref(r.EstimatedGDP)
                     /\ Deref(r.EstimatedGDP)
                          <= EstimateGDP(c.Population, 2000, rate)
                     /\ c.Population = 0 => Deref(r.EstimatedGDP) = 0

\* an existing row updated from a populated record drawn at the top of the
\* multiplier's range
C5_Witness ==
    \E p \in Procs :
        /\ JustWrote(p)
        /\ HasRate(Written(p), rates[p])
        /\ ~IsNil(existing[p])
        /\ Written(p).Population > 0
        /\ randomMultiplier[p] = 2000
        /\ \E r \in RowsNamed(store, Written(p).Name) :
             r.EstimatedGDP = dbCountry[p].EstimatedGDP

\* ----------------------------------------------------------------------- C6
\* the steps of the handlers, recognised by what they change
GetStep == resp' # resp /\ resp'.op = "get"
DeleteArrives == deletes' # deletes
DeleteStep == delPc = "delete" /\ delPc' = "idle"
WriteStep(p) == pc[p] = "write" /\ pc'[p] # "write"
IDs(rows) == {r.ID : r \in rows}

\* C6: names are matched without regard to letter case: get-by-name answers
\* with the row whose lower-cased name equals the lower-cased parameter, so
\* two spellings get the same row; delete-by-name removes that row for
\* either spelling; and a refresh record in either spelling updates the
\* existing row in place and inserts no second row.
C6_CaseInsensitiveNames ==
    [][/\ GetStep =>
            /\ resp'.rows = RowsNamed(store, resp'.name)
            /\ resp'.status = IF RowsNamed(store, resp'.name) = {}
                              THEN 404 ELSE 200
       /\ DeleteArrives =>
            IF delPc' = "delete"
            THEN RowsNamed(store, delName') # {}
            ELSE RowsNamed(store, resp'.name) = {}
       /\ DeleteStep =>
            /\ RowsNamed(store, delName) # {}
            /\ store' = store \ RowsNamed(store, delName)
       /\ \A p \in Procs :
            (WriteStep(p) /\ RowsNamed(store, dbCountry[p].Name) # {}) =>
                /\ IDs(store') = IDs(store)
                /\ Cardinality(store') = Cardinality(store)
                /\ \E r \in RowsNamed(store', dbCountry[p].Name) :
                     /\ r.ID \in IDs(RowsNamed(store, dbCountry[p].Name))
                     /\ r.Name = dbCountry[p].Name
                     /\ r.LastRefreshedAt = DbTime(now[p])]_vars

\* a get by one spelling answered with the row stored under the other
C6_Witness ==
    /\ resp.op = "get"
    /\ resp.status = 200
    /\ \E r \in resp.rows : r.Name # resp.name /\ r \in store

\* ----------------------------------------------------------------------- C7
\* C7: a delete of a name matching no row answers 404 and leaves the table
\* as it was; a delete of a name matching a row answers 200 and removes that
\* row and no other; from then on the name matches no row, and get-by-name
\* answers 404, until a refresh writes it again.
C7_DeleteByName ==
    [][/\ DeleteArrives =>
            \/ /\ delPc' = "delete"
               /\ RowsNamed(store, delName') # {}
               /\ store' = store
            \/ /\ delPc' = "idle"
               /\ resp'.op = "delete"
               /\ resp'.status = 404
               /\ RowsNamed(store, resp'.name) = {}
               /\ store' = store
       /\ DeleteStep =>
            /\ resp'.op = "delete"
            /\ resp'.status = 200
            /\ resp'.name = delName
            /\ \E r \in store :
                 /\ LOWER(r.Name) = LOWER(delName)
                 /\ store' = store \ {r}
            /\ IsNil(First(store', delName))
       /\ \A n \in Names :
            (RowsNamed(store, n) = {} /\ RowsNamed(store', n) # {}) =>
                \E p \in Procs : WriteStep(p)
       /\ (GetStep /\ RowsNamed(store, resp'.name) = {}) =>
            resp'.status = 404]_vars

\* a delete answered 200 that left the other row in place
C7_Witness ==
    /\ resp.op = "delete"
    /\ resp.status = 200
    /\ RowsNamed(store, resp.name) = {}
    /\ store # {}

\* ----------------------------------------------------------------------- C8
\* C8: in every reachable state, whatever the interleaving of refresh and
\* delete requests, the table holds at most one row per name compared
\* without regard to letter case.
C8_OneRowPerName ==
    \A r1, r2 \in store : LOWER(r1.Name) = LOWER(r2.Name) => r1 = r2

\* two refreshes each found the name absent, each issued its insert, in two
\* spellings, and the table holds one row for the name
C8_Witness ==
    \E p, q \in Procs :
        /\ p # q
        /\ JustWrote(p) /\ JustWrote(q)
        /\ IsNil(existing[p]) /\ IsNil(existing[q])
        /\ dbCountry[p].Name # dbCountry[q].Name
        /\ LOWER(dbCountry[p].Name) = LOWER(dbCountry[q].Name)
        /\ deletes = 0
        /\ Cardinality(RowsNamed(store, dbCountry[p].Name)) = 1

\* ----------------------------------------------------------------------- C9
\* the row's content, apart from its primary key, and a record as the
\* table keeps it
Content(r) == [r EXCEPT !.ID = 0]
Stored(c) == [c EXCEPT !.LastRefreshedAt = DbTime(@)]

\* C9: concurrent upserts of one name are last-writer-wins, also when both
\* lookups found the name absent: after a refresh's write for a name it
\* found absent, the row of that name holds the record that refresh wrote.
C9_LastWriterWins ==
    [][\A p \in Procs :
         (WriteStep(p) /\ IsNil(existing[p])) =>
             \E r \in RowsNamed(store', dbCountry[p].Name) :
                 Content(r) = Stored(dbCountry[p])]_vars

\* ---------------------------------------------------------------------- C10
\* C10: only a delete request removes rows: every other step, a refresh's
\* included, keeps every row (same key, same name up to letter case), and
\* list, get-by-name, status and image requests leave the table unchanged.
C10_OnlyDeleteRemoves ==
    [][/\ ~DeleteStep =>
            \A r \in store :
                \E r2 \in store' :
                    r2.ID = r.ID /\ LOWER(r2.Name) = LOWER(r.Name)
       /\ (resp' # resp /\ resp'.op \in {"list", "get", "status", "image"}) =>
            store' = store]_vars

\* a refresh has gone through its list and a row written by an earlier
\* refresh, whose name the list does not contain, is still there
C10_Witness ==
    \E p \in Procs :
        /\ LoopDone(p)
        /\ Upstream(p) # {}
        /\ \E r \in store :
             /\ r.LastRefreshedAt < now[p]
             /\ \A c \in Upstream(p) : LOWER(c.Name) # LOWER(r.Name)

\* ---------------------------------------------------------------------- C11
\* the steps by which a refresh answers 200 and by which a status request
\* follows a refresh's 200 with no other response in between
RefreshAnswers(p) == pc[p] = "image" /\ pc'[p] = "idle"
StatusFollowsRefresh ==
    /\ resp.op = "refresh" /\ resp.status = 200
    /\ resp' # resp /\ resp'.op = "status"

====
